---------------------------- MODULE Spec2Model ----------------------------
(***************************************************************************)
(* ai-image-rename: the batch rename pipeline of src/README.md (the        *)
(* TypeScript program embedded from line 102 on).                          *)
(*                                                                         *)
(* main() filters argv, asks for a format and a concurrency limit, and     *)
(* runs processImage over every admitted path under p-limit.  Each         *)
(* processImage awaits fs.readFile, fetch, then, inside the global         *)
(* renameMutex, fs.stat and fs.rename.  Node runs every continuation to    *)
(* its next await without interleaving, so one action of the model is one  *)
(* continuation: the completion of an awaited I/O call together with all   *)
(* the synchronous code that follows it up to the next I/O call.           *)
(***************************************************************************)
EXTENDS Naturals, Sequences, FiniteSets, TLC

VARIABLES
    apiKey,       \* OPENROUTER_API_KEY is set
    argv,         \* process.argv.slice(2)
    mainPc,       \* position of main()
    fs,           \* the filesystem: location -> file identity
    validImagePaths, \* admitted paths, in Set insertion order
    filenameFormat,  \* the selected Format
    concurrencyLimit,
    activeCount,  \* p-limit's count of running tasks
    pc,           \* position of each scheduled task
    aiResponse,   \* the description response each task received
    newFilePath,  \* the destination each task computed
    result,       \* ProcessResult status of each task
    mutexHolder,  \* renameMutex: the task inside runExclusive, 0 when free
    mutexQueue,   \* renameMutex: tasks waiting, FIFO
    results,      \* Record<ProcessStatus, number>
    done,         \* completed counter
    log,          \* progress notifications, in emission order
    calls,        \* per task: how many I/O calls of each kind it issued
    fault,        \* per task: the awaited call that rejected, if any
    external,     \* files created by an actor outside the run
    nameArg,      \* the name given to convertCase, when it is applied on its own
    nameResult    \* the text convertCase returned for it

vars == <<apiKey, argv, mainPc, fs, validImagePaths, filenameFormat,
          concurrencyLimit, activeCount, pc, aiResponse, newFilePath, result,
          mutexHolder, mutexQueue, results, done, log, calls, fault, external,
          nameArg, nameResult>>

---------------------------------------------------------------------------
(* Bounds of the model.                                                    *)

\* argv is a prefix of ArgvPool of at most this length
MaxArgs == 6
\* the concurrency limit typed at the prompt ranges over 1..MaxConcurrency
MaxConcurrency == 2
\* files an outside actor may create during a run (SpecExt only)
MaxExternal == 1

---------------------------------------------------------------------------
(* Text: a string is a sequence of one-character strings.                  *)

Lowers == {"a", "b", "x", "y"}
Uppers == {"A", "B", "X", "Y"}

IsLetter(c) == c \in Lowers \cup Uppers
IsSpace(c) == c = " "

ToUpper(c) ==
    CASE c = "a" -> "A" [] c = "b" -> "B" [] c = "x" -> "X" [] c = "y" -> "Y"
      [] OTHER -> c

ToLower(c) ==
    CASE c = "A" -> "a" [] c = "B" -> "b" [] c = "X" -> "x" [] c = "Y" -> "y"
      [] OTHER -> c

RECURSIVE TrimStart(_)
TrimStart(s) ==
    IF s # <<>> /\ IsSpace(Head(s)) THEN TrimStart(Tail(s)) ELSE s

RECURSIVE TrimEnd(_)
TrimEnd(s) ==
    IF s # <<>> /\ IsSpace(s[Len(s)]) THEN TrimEnd(SubSeq(s, 1, Len(s) - 1))
    ELSE s

\* String.prototype.trim
Trim(s) == TrimEnd(TrimStart(s))

\* String.prototype.substring(0, n)
Substring0(s, n) == SubSeq(s, 1, IF Len(s) < n THEN Len(s) ELSE n)


---------------------------------------------------------------------------
(* change-case: split a text into words, then re-join them per format.     *)

\* split(): a word boundary lies before position i of s
IsBoundary(s, i) ==
    /\ i > 1
    /\ \/ s[i - 1] \in Lowers /\ s[i] \in Uppers
       \/ /\ s[i - 1] \in Uppers /\ s[i] \in Uppers
          /\ i < Len(s) /\ s[i + 1] \in Lowers

\* split(): a word starts at position i of s
WordStart(s, i) ==
    /\ IsLetter(s[i])
    /\ i = 1 \/ ~IsLetter(s[i - 1]) \/ IsBoundary(s, i)

\* split(): the word that starts at position i of s ends at position j
WordEnd(s, i, j) ==
    /\ j >= i
    /\ \A k \in (i + 1)..j : IsLetter(s[k]) /\ ~IsBoundary(s, k)
    /\ j = Len(s) \/ ~IsLetter(s[j + 1]) \/ IsBoundary(s, j + 1)

\* the words of s, in order
WordsOf(s) ==
    LET starts == {i \in 1..Len(s) : WordStart(s, i)}
        nth(k) == CHOOSE i \in starts : Cardinality({j \in starts : j < i}) = k - 1
        end(i) == CHOOSE j \in i..Len(s) : WordEnd(s, i, j)
    IN  [k \in 1..Cardinality(starts) |-> SubSeq(s, nth(k), end(nth(k)))]

\* changeCase split: the words of a text
Split(s) == WordsOf(Trim(s))

LowerWord(w) == [k \in 1..Len(w) |-> ToLower(w[k])]

\* capitalCaseTransform / pascalCaseTransform without digits
CapitalWord(w) == [k \in 1..Len(w) |-> IF k = 1 THEN ToUpper(w[k]) ELSE ToLower(w[k])]

RECURSIVE Join(_, _)
Join(ws, delim) ==
    IF ws = <<>> THEN <<>>
    ELSE IF Len(ws) = 1 THEN ws[1]
    ELSE ws[1] \o delim \o Join(Tail(ws), delim)

noCase(s, delim) == Join([k \in 1..Len(Split(s)) |-> LowerWord(Split(s)[k])], delim)

snakeCase(s) == noCase(s, <<"_">>)

kebabCase(s) == noCase(s, <<"-">>)

pascalCase(s) == Join([k \in 1..Len(Split(s)) |-> CapitalWord(Split(s)[k])], <<>>)

camelCase(s) ==
    Join([k \in 1..Len(Split(s)) |->
            IF k = 1 THEN LowerWord(Split(s)[k]) ELSE CapitalWord(Split(s)[k])], <<>>)

capitalCase(s) == Join([k \in 1..Len(Split(s)) |-> CapitalWord(Split(s)[k])], <<" ">>)

sentenceCase(s) ==
    Join([k \in 1..Len(Split(s)) |->
            IF k = 1 THEN CapitalWord(Split(s)[k]) ELSE LowerWord(Split(s)[k])], <<" ">>)

Formats == {"snake", "kebab", "pascal", "camel", "capital", "lowercase", "sentence"}

\* result.trim().substring(0, 200)
MaxNameLength == 200

convertCase(name, format) ==
    LET cased ==
          CASE format = "snake" -> snakeCase(name)
            [] format = "kebab" -> kebabCase(name)
            [] format = "pascal" -> pascalCase(name)
            [] format = "camel" -> camelCase(name)
            [] format = "capital" -> capitalCase(name)
            [] format = "lowercase" -> noCase(name, <<" ">>)
            [] format = "sentence" -> sentenceCase(name)
            [] OTHER -> snakeCase(name)
    IN  Substring0(Trim(cased), MaxNameLength)

---------------------------------------------------------------------------
(* Paths and the filesystem.                                               *)
(* A path text is a record: its directory, base name, extension, and       *)
(* whether the text is in the normal form path.join produces ("a.jpg",     *)
(* not "./a.jpg").  Two texts with the same dir, base and ext name the     *)
(* same filesystem location.                                               *)

Path(dir, base, ext, norm) == [dir |-> dir, base |-> base, ext |-> ext, norm |-> norm]

Loc(p) == <<p.dir, p.base, p.ext>>

ALLOWED_EXTENSIONS == {"png", "jpg", "jpeg", "webp"}

\* the candidate arguments; argv is a prefix of this list
ArgvPool ==
    << Path(".", <<"m">>, "jpg", TRUE),     \* m.jpg: does not exist
       Path(".", <<"a">>, "jpg", TRUE),     \* a.jpg
       Path(".", <<"c">>, "gif", TRUE),     \* c.gif: extension not allowed
       Path(".", <<"b">>, "jpg", TRUE),     \* b.jpg
       Path(".", <<"u">>, "png", TRUE),     \* u.png: exists, not readable
       Path(".", <<"a">>, "jpg", FALSE),    \* ./a.jpg: a second text for a.jpg
       Path(".", <<"d">>, "jpg", TRUE) >>   \* d.jpg: a directory

\* the files on disk when the run starts: location -> file identity
InitFs ==
    (<<".", <<"a">>, "jpg">> :> 1) @@ (<<".", <<"b">>, "jpg">> :> 2) @@
    (<<".", <<"c">>, "gif">> :> 3) @@ (<<".", <<"u">>, "png">> :> 4) @@
    (<<".", <<"a">>, "png">> :> 5) @@ (<<".", <<"y">>, "jpg">> :> 6) @@
    (<<".", <<"d">>, "jpg">> :> 7)

\* file identities without read permission, those that are directories,
\* and the file an outsider creates
Unreadable == {4}
Directories == {7}
ExternalFiles == {9}

\* fs.stat(filePath) then stats.isFile()
doesFileExist(f, p) == Loc(p) \in DOMAIN f /\ f[Loc(p)] \notin Directories

\* slip: fs.access is not asked, existence is taken for readability
isFileReadableNoAccess(f, p) == doesFileExist(f, p)

isFileReadable(f, p) ==
    IF ~doesFileExist(f, p) THEN FALSE ELSE f[Loc(p)] \notin Unreadable

\* path.extname(pth).toLowerCase()
extLower(ext) ==
    CASE ext = "JPG" -> "jpg" [] ext = "JPEG" -> "jpeg" [] ext = "PNG" -> "png"
      [] ext = "WEBP" -> "webp" [] ext = "GIF" -> "gif" [] OTHER -> ext

\* Set.prototype.add on an insertion-ordered Set
SetAdd(seq, x) == IF \E k \in 1..Len(seq) : seq[k] = x THEN seq ELSE Append(seq, x)

RECURSIVE FilterFrom(_, _, _, _)
FilterFrom(f, paths, k, acc) ==
    IF k > Len(paths) THEN acc
    ELSE LET pth == paths[k]
             existsAndReadable == isFileReadable(f, pth)
             ext == extLower(pth.ext)
         IN  IF existsAndReadable /\ ext \in ALLOWED_EXTENSIONS
             THEN FilterFrom(f, paths, k + 1, SetAdd(acc, pth))
             ELSE FilterFrom(f, paths, k + 1, acc)

filterValidImagePaths(f, imagePaths) == FilterFrom(f, imagePaths, 1, <<>>)

\* fs.rename(src, dst): the filesystem after a successful rename (POSIX
\* rename replaces an existing destination)
Renamed(f, src, dst) ==
    [l \in (DOMAIN f \ {src}) \cup {dst} |-> IF l = dst THEN f[src] ELSE f[l]]

---------------------------------------------------------------------------
(* The description request.                                                *)

\* what the remote service may answer: the fetch is aborted by the 10 s
\* timeout, the status is not 2xx (whatever its body holds), or a 2xx body
\* with message content
Contents == {<<" ">>, <<"-">>, <<"a">>, <<"b">>, <<"x", " ", "y">>}

Responses ==
    {[kind |-> "timeout", content |-> <<>>],
     [kind |-> "http_error", content |-> <<"x", " ", "y">>]}
    \cup {[kind |-> "ok", content |-> c] : c \in Contents}

NoResponse == [kind |-> "none", content |-> <<>>]

\* slip: response.ok is not tested, the body of a failed request is used
getNewFilenameUnchecked(resp) ==
    IF resp.kind = "timeout" THEN [threw |-> TRUE, value |-> <<>>]
    ELSE LET content == Trim(resp.content)
         IN  IF content = <<>> THEN [threw |-> TRUE, value |-> <<>>]
             ELSE [threw |-> FALSE, value |-> content]

\* getNewFilename after the fetch settles: threw is TRUE when it throws
getNewFilename(resp) ==
    IF resp.kind = "timeout" THEN [threw |-> TRUE, value |-> <<>>]
    ELSE IF resp.kind # "ok" THEN [threw |-> TRUE, value |-> <<>>]
    ELSE LET content == Trim(resp.content)
         IN  IF content = <<>> THEN [threw |-> TRUE, value |-> <<>>]
             ELSE [threw |-> FALSE, value |-> content]

NoPath == [dir |-> "", base |-> <<>>, ext |-> "", norm |-> TRUE]

\* slip: the extension is left off the new name
joinNewPathNoExt(imagePath, sanitizedName) ==
    Path(imagePath.dir, sanitizedName, "", TRUE)

\* path.join(path.dirname(imagePath), `${sanitizedName}${fileExt}`)
joinNewPath(imagePath, sanitizedName) ==
    Path(imagePath.dir, sanitizedName, imagePath.ext, TRUE)

\* slip: a caught fault is reported as a skip
catchResultSkipped == "skipped"

\* the catch clause of processImage
catchResult == "error"

\* slip: the no-op test is left out
samePathNever(imagePath, newPath) == FALSE

\* imagePath === newFilePath
samePath(imagePath, newPath) == imagePath = newPath

\* processImage from the settling of the fetch to the call of runExclusive:
\* a status to return, or "rename" with the destination
afterDescribe(imagePath, resp, format) ==
    LET got == getNewFilename(resp)
        aiName == got.value
        sanitizedName == convertCase(aiName, format)
        newPath == joinNewPath(imagePath, sanitizedName)
    IN  IF got.threw THEN [status |-> catchResult, path |-> NoPath]
        ELSE IF aiName = <<>> THEN [status |-> "skipped", path |-> NoPath]
        ELSE IF sanitizedName = <<>> THEN [status |-> "skipped", path |-> NoPath]
        ELSE IF samePath(imagePath, newPath) THEN [status |-> "skipped", path |-> newPath]
        ELSE [status |-> "rename", path |-> newPath]

---------------------------------------------------------------------------
(* State machine.                                                          *)

Tasks == DOMAIN pc

NoCalls == [read |-> 0, fetch |-> 0, acquire |-> 0, stat |-> 0, rename |-> 0]

Init ==
    /\ apiKey \in BOOLEAN
    /\ argv \in {SubSeq(ArgvPool, 1, k) : k \in 0..MaxArgs}
    /\ mainPc = "start"
    /\ fs = InitFs
    /\ validImagePaths = <<>>
    /\ filenameFormat = "snake"
    /\ concurrencyLimit = 0
    /\ activeCount = 0
    /\ pc = <<>>
    /\ aiResponse = <<>>
    /\ newFilePath = <<>>
    /\ result = <<>>
    /\ mutexHolder = 0
    /\ mutexQueue = <<>>
    /\ results = [success |-> 0, skipped |-> 0, error |-> 0]
    /\ done = 0
    /\ log = <<>>
    /\ calls = <<>>
    /\ fault = <<>>
    /\ external = 0
    /\ nameArg = <<>>
    /\ nameResult = <<>>

\* the argument and the result of a convertCase call made on its own
nameVars == <<nameArg, nameResult>>

taskVars == <<activeCount, pc, aiResponse, newFilePath, result, mutexHolder,
              mutexQueue, results, done, log, calls, fault>>

\* main, lines 296-300: no API key
MainNoKey ==
    /\ mainPc = "start"
    /\ ~apiKey
    /\ mainPc' = "exit1"
    /\ UNCHANGED <<apiKey, argv, fs, validImagePaths, filenameFormat,
                   concurrencyLimit, taskVars, external, nameVars>>

\* main, lines 302-308: no arguments
MainNoArgs ==
    /\ mainPc = "start"
    /\ apiKey
    /\ Len(argv) = 0
    /\ mainPc' = "exit0"
    /\ UNCHANGED <<apiKey, argv, fs, validImagePaths, filenameFormat,
                   concurrencyLimit, taskVars, external, nameVars>>

\* slip: the run goes on to the prompts although no path was admitted
MainFilterNoExit ==
    /\ mainPc = "start"
    /\ apiKey
    /\ Len(argv) # 0
    /\ validImagePaths' = filterValidImagePaths(fs, argv)
    /\ mainPc' = "prompt"
    /\ UNCHANGED <<apiKey, argv, fs, filenameFormat, concurrencyLimit,
                   taskVars, external, nameVars>>

\* main, lines 310-316: filter the arguments; exit when none is admitted
MainFilter ==
    /\ mainPc = "start"
    /\ apiKey
    /\ Len(argv) # 0
    /\ validImagePaths' = filterValidImagePaths(fs, argv)
    /\ mainPc' = IF Len(validImagePaths') = 0 THEN "exit0" ELSE "prompt"
    /\ UNCHANGED <<apiKey, argv, fs, filenameFormat, concurrencyLimit,
                   taskVars, external, nameVars>>

\* slip: the limit is compared with <=, so one task too many is started
mayStartOffByOne(active, limit) == active <= limit

\* p-limit may start another task (activeCount < concurrency)
mayStart(active, limit) == active < limit

\* main, lines 318-387: the prompts answered, every admitted path is handed
\* to pLimitInstance in order; p-limit starts each one while fewer than the
\* limit are running and queues the rest.  A started task calls
\* processImage, which calls fs.readFile (line 134)
MainPrompt ==
    /\ mainPc = "prompt"
    /\ \E format \in Formats, num \in 1..MaxConcurrency :
          LET n == Len(validImagePaths)
              started == {i \in 1..n : mayStart(i - 1, num)}
          IN  /\ filenameFormat' = format
              /\ concurrencyLimit' = num
              /\ activeCount' = Cardinality(started)
              /\ pc' = [i \in 1..n |-> IF i \in started THEN "encoding" ELSE "queued"]
              /\ calls' = [i \in 1..n |->
                              IF i \in started THEN [NoCalls EXCEPT !.read = 1] ELSE NoCalls]
    /\ mainPc' = "running"
    /\ aiResponse' = [i \in 1..Len(validImagePaths) |-> NoResponse]
    /\ newFilePath' = [i \in 1..Len(validImagePaths) |-> NoPath]
    /\ result' = [i \in 1..Len(validImagePaths) |-> "none"]
    /\ fault' = [i \in 1..Len(validImagePaths) |-> "none"]
    /\ UNCHANGED <<apiKey, argv, fs, validImagePaths, mutexHolder,
                   mutexQueue, results, done, log, external, nameVars>>

\* main, lines 345-348: a prompt is cancelled
MainCancel ==
    /\ mainPc = "prompt"
    /\ mainPc' = "exit0"
    /\ UNCHANGED <<apiKey, argv, fs, validImagePaths, filenameFormat,
                   concurrencyLimit, taskVars, external, nameVars>>

\* the tasks whose processImage has started and not yet returned
InFlight ==
    {i \in Tasks : pc[i] \in {"encoding", "describing", "waiting", "checking", "renaming"}}

\* slip: a rejected fs.readFile is tried again
ReadDoneRetry(i) ==
    /\ pc[i] = "encoding"
    /\ \E ok \in BOOLEAN :
          /\ ok => isFileReadable(fs, validImagePaths[i])
          /\ IF ok
             THEN /\ pc' = [pc EXCEPT ![i] = "describing"]
                  /\ calls' = [calls EXCEPT ![i].fetch = @ + 1]
             ELSE /\ pc' = pc
                  /\ calls' = [calls EXCEPT ![i].read = @ + 1]
    /\ UNCHANGED <<apiKey, argv, mainPc, fs, validImagePaths, filenameFormat,
                   concurrencyLimit, activeCount, aiResponse, newFilePath,
                   result, fault, mutexHolder, mutexQueue, results, done, log,
                   external, nameVars>>

\* fs.readFile settles (line 134).  It rejects when the file is not there or
\* not readable, and may reject for any other I/O error; on success the
\* request is sent (line 196)
ReadDone(i) ==
    /\ pc[i] = "encoding"
    /\ \E ok \in BOOLEAN :
          /\ ok => isFileReadable(fs, validImagePaths[i])
          /\ IF ok
             THEN /\ pc' = [pc EXCEPT ![i] = "describing"]
                  /\ calls' = [calls EXCEPT ![i].fetch = @ + 1]
                  /\ UNCHANGED <<result, fault>>
             ELSE /\ pc' = [pc EXCEPT ![i] = "returned"]
                  /\ result' = [result EXCEPT ![i] = catchResult]
                  /\ fault' = [fault EXCEPT ![i] = "read"]
                  /\ UNCHANGED calls
    /\ UNCHANGED <<apiKey, argv, mainPc, fs, validImagePaths, filenameFormat,
                   concurrencyLimit, activeCount, aiResponse, newFilePath,
                   mutexHolder, mutexQueue, results, done, log, external, nameVars>>

\* slip: release() frees the mutex without waking the oldest waiter
releasedHolderLost(queue) == 0

\* the mutex after release(): the oldest waiter, if any, becomes the holder
releasedHolder(queue) == IF queue = <<>> THEN 0 ELSE Head(queue)

\* the callback's task returns and the mutex stays with it when its result
\* is status, else the mutex is released
ReleaseUnless(pcs, status) ==
    IF result'[mutexHolder] = status
    THEN /\ pc' = pcs
         /\ UNCHANGED <<mutexHolder, mutexQueue, calls>>
    ELSE LET nxt == releasedHolder(mutexQueue) IN
         /\ mutexHolder' = nxt
         /\ mutexQueue' = IF mutexQueue = <<>> THEN <<>> ELSE Tail(mutexQueue)
         /\ pc' = IF nxt = 0 THEN pcs ELSE [pcs EXCEPT ![nxt] = "checking"]
         /\ calls' = IF nxt = 0 THEN calls ELSE [calls EXCEPT ![nxt].stat = @ + 1]

\* slip: no finally, a rejected fs.rename leaves the mutex held
ReleaseUnlessFailed(pcs) == ReleaseUnless(pcs, "error")

\* slip: the early return for an existing destination skips the release
ReleaseUnlessSkipped(pcs) == ReleaseUnless(pcs, "skipped")

\* runExclusive's finally: release the mutex; the next holder's callback runs
\* and calls fs.stat (line 241).  pcs is pc with the releasing task updated.
Release(pcs) ==
    LET nxt == releasedHolder(mutexQueue) IN
    /\ mutexHolder' = nxt
    /\ mutexQueue' = IF mutexQueue = <<>> THEN <<>> ELSE Tail(mutexQueue)
    /\ pc' = IF nxt = 0 THEN pcs ELSE [pcs EXCEPT ![nxt] = "checking"]
    /\ calls' = IF nxt = 0 THEN calls ELSE [calls EXCEPT ![nxt].stat = @ + 1]

\* slip: the callback runs without waiting for the mutex
mutexFreeAlways(holder) == TRUE

\* renameMutex.runExclusive may enter at once
mutexFree(holder) == holder = 0

\* the fetch settles (lines 196-215) and processImage runs on to
\* runExclusive (lines 221-240): the mutex is taken if free, else the task
\* queues for it
DescribeDone(i) ==
    /\ pc[i] = "describing"
    /\ \E resp \in Responses :
          LET out == afterDescribe(validImagePaths[i], resp, filenameFormat) IN
          /\ aiResponse' = [aiResponse EXCEPT ![i] = resp]
          /\ newFilePath' = [newFilePath EXCEPT ![i] = out.path]
          /\ fault' = [fault EXCEPT ![i] = IF getNewFilename(resp).threw THEN "describe" ELSE @]
          /\ IF out.status # "rename"
             THEN /\ pc' = [pc EXCEPT ![i] = "returned"]
                  /\ result' = [result EXCEPT ![i] = out.status]
                  /\ UNCHANGED <<mutexHolder, mutexQueue, calls>>
             ELSE IF mutexFree(mutexHolder)
             THEN /\ mutexHolder' = i
                  /\ pc' = [pc EXCEPT ![i] = "checking"]
                  /\ calls' = [calls EXCEPT ![i].acquire = @ + 1, ![i].stat = @ + 1]
                  /\ UNCHANGED <<mutexQueue, result>>
             ELSE /\ mutexQueue' = Append(mutexQueue, i)
                  /\ pc' = [pc EXCEPT ![i] = "waiting"]
                  /\ calls' = [calls EXCEPT ![i].acquire = @ + 1]
                  /\ UNCHANGED <<mutexHolder, result>>
    /\ UNCHANGED <<apiKey, argv, mainPc, fs, validImagePaths, filenameFormat,
                   concurrencyLimit, activeCount, results, done, log, external, nameVars>>

\* slip: the existence check is left out, rename is always called
destinationExistsNever(f, p) == FALSE

\* await doesFileExist(newFilePath), line 241
destinationExists(f, p) == doesFileExist(f, p)

\* fs.stat settles inside the mutex (lines 241-245): skip when the
\* destination is a regular file, else call fs.rename
StatDone(i) ==
    /\ pc[i] = "checking"
    /\ IF destinationExists(fs, newFilePath[i])
       THEN /\ result' = [result EXCEPT ![i] = "skipped"]
            /\ Release([pc EXCEPT ![i] = "returned"])
       ELSE /\ pc' = [pc EXCEPT ![i] = "renaming"]
            /\ calls' = [calls EXCEPT ![i].rename = @ + 1]
            /\ UNCHANGED <<result, mutexHolder, mutexQueue>>
    /\ UNCHANGED <<apiKey, argv, mainPc, fs, validImagePaths, filenameFormat,
                   concurrencyLimit, activeCount, aiResponse, newFilePath,
                   results, done, log, fault, external, nameVars>>

\* fs.rename settles (lines 245-249).  It rejects when the source is gone or
\* the destination is a directory, and may reject for any other reason
\* (permissions, disk); the mutex is released either way
RenameDone(i) ==
    /\ pc[i] = "renaming"
    /\ \E ok \in BOOLEAN :
          /\ ok => /\ Loc(validImagePaths[i]) \in DOMAIN fs
                   /\ Loc(newFilePath[i]) \in DOMAIN fs => fs[Loc(newFilePath[i])] \notin Directories
          /\ IF ok
             THEN /\ fs' = Renamed(fs, Loc(validImagePaths[i]), Loc(newFilePath[i]))
                  /\ result' = [result EXCEPT ![i] = "success"]
                  /\ UNCHANGED fault
             ELSE /\ result' = [result EXCEPT ![i] = catchResult]
                  /\ fault' = [fault EXCEPT ![i] = "rename"]
                  /\ UNCHANGED fs
    /\ Release([pc EXCEPT ![i] = "returned"])
    /\ UNCHANGED <<apiKey, argv, mainPc, validImagePaths, filenameFormat,
                   concurrencyLimit, activeCount, aiResponse, newFilePath,
                   results, done, log, external, nameVars>>

\* slip: a skipped file is counted as an error as well
countedTwice(res, status) ==
    IF status = "skipped"
    THEN [res EXCEPT !["skipped"] = @ + 1, !["error"] = @ + 1]
    ELSE [res EXCEPT ![status] = @ + 1]

\* results[result.status]++
counted(res, status) == [res EXCEPT ![status] = @ + 1]

\* p-limit's queue: the tasks not yet started, oldest first
Queued == {j \in Tasks : pc[j] = "queued"}

\* slip: the message is built before done is incremented
messageStale(i, status, n) == [task |-> i, status |-> status, done |-> n - 1]

\* the line given to log.message (lines 375-385): the path's file name, its
\* status and the completed count
message(i, status, n) == [task |-> i, status |-> status, done |-> n]

\* the task's body after processImage returned (lines 372-385); then
\* p-limit's next() counts the task out and starts the oldest queued task
TaskDone(i) ==
    /\ pc[i] = "returned"
    /\ results' = counted(results, result[i])
    /\ done' = done + 1
    /\ log' = Append(log, message(i, result[i], done'))
    /\ IF Queued = {}
       THEN /\ pc' = [pc EXCEPT ![i] = "done"]
            /\ activeCount' = activeCount - 1
            /\ UNCHANGED calls
       ELSE LET j == CHOOSE q \in Queued : \A r \in Queued : q <= r
            IN  /\ pc' = [pc EXCEPT ![i] = "done", ![j] = "encoding"]
                /\ activeCount' = (activeCount - 1) + 1
                /\ calls' = [calls EXCEPT ![j].read = @ + 1]
    /\ UNCHANGED <<apiKey, argv, mainPc, fs, validImagePaths, filenameFormat,
                   concurrencyLimit, aiResponse, newFilePath, result,
                   mutexHolder, mutexQueue, fault, external, nameVars>>

\* await Promise.all(processingTasks) resolves (lines 389-398)
MainComplete ==
    /\ mainPc = "running"
    /\ \A i \in Tasks : pc[i] = "done"
    /\ mainPc' = "complete"
    /\ UNCHANGED <<apiKey, argv, fs, validImagePaths, filenameFormat,
                   concurrencyLimit, taskVars, external, nameVars>>

Next ==
    \/ MainNoKey
    \/ MainNoArgs
    \/ MainFilter
    \/ MainPrompt
    \/ MainCancel
    \/ MainComplete
    \/ \E i \in Tasks : ReadDone(i)
    \/ \E i \in Tasks : DescribeDone(i)
    \/ \E i \in Tasks : StatDone(i)
    \/ \E i \in Tasks : RenameDone(i)
    \/ \E i \in Tasks : TaskDone(i)

Spec == Init /\ [][Next]_vars

---------------------------------------------------------------------------
(* The same run with an actor outside it that creates regular files.       *)

\* the locations a task of this run may compute as its destination
PossibleDestinations ==
    {Loc(joinNewPath(validImagePaths[i], convertCase(Trim(c), filenameFormat))) :
        i \in Tasks, c \in Contents}

\* another process creates a regular file while the run is under way
ExternalCreate ==
    /\ mainPc = "running"
    /\ external < MaxExternal
    /\ \E l \in PossibleDestinations \ DOMAIN fs :
          \E id \in ExternalFiles : fs' = (l :> id) @@ fs
    /\ external' = external + 1
    /\ UNCHANGED <<apiKey, argv, mainPc, validImagePaths, filenameFormat,
                   concurrencyLimit, taskVars, nameVars>>

NextExt == Next \/ ExternalCreate

SpecExt == Init /\ [][NextExt]_vars

---------------------------------------------------------------------------
(* A run whose argv names one file by two texts: a.jpg, ./a.jpg, b.jpg and *)
(* y.jpg are all admitted (the Set of line 276 holds texts), taken from    *)
(* the moment main has handed the four tasks to p-limit, snake format.     *)

AliasArgv ==
    << Path(".", <<"a">>, "jpg", TRUE), Path(".", <<"a">>, "jpg", FALSE),
       Path(".", <<"b">>, "jpg", TRUE), Path(".", <<"y">>, "jpg", TRUE) >>

\* main has handed the tasks for the arguments paths to p-limit (line 387)
InitRunning(paths) ==
    /\ apiKey = TRUE
    /\ argv = paths
    /\ mainPc = "running"
    /\ fs = InitFs
    /\ validImagePaths = filterValidImagePaths(InitFs, paths)
    /\ filenameFormat = "snake"
    /\ concurrencyLimit \in 1..MaxConcurrency
    /\ activeCount = Cardinality({i \in 1..Len(validImagePaths) : mayStart(i - 1, concurrencyLimit)})
    /\ pc = [i \in 1..Len(validImagePaths) |->
                IF mayStart(i - 1, concurrencyLimit) THEN "encoding" ELSE "queued"]
    /\ aiResponse = [i \in 1..Len(validImagePaths) |-> NoResponse]
    /\ newFilePath = [i \in 1..Len(validImagePaths) |-> NoPath]
    /\ result = [i \in 1..Len(validImagePaths) |-> "none"]
    /\ mutexHolder = 0
    /\ mutexQueue = <<>>
    /\ results = [success |-> 0, skipped |-> 0, error |-> 0]
    /\ done = 0
    /\ log = <<>>
    /\ calls = [i \in 1..Len(validImagePaths) |->
                   IF mayStart(i - 1, concurrencyLimit)
                   THEN [NoCalls EXCEPT !.read = 1] ELSE NoCalls]
    /\ fault = [i \in 1..Len(validImagePaths) |-> "none"]
    /\ external = 0
    /\ nameArg = <<>>
    /\ nameResult = <<>>

InitAlias == InitRunning(AliasArgv)

NextAlias ==
    \/ MainComplete
    \/ \E i \in Tasks : ReadDone(i)
    \/ \E i \in Tasks : DescribeDone(i)
    \/ \E i \in Tasks : StatDone(i)
    \/ \E i \in Tasks : RenameDone(i)
    \/ \E i \in Tasks : TaskDone(i)

SpecAlias == InitAlias /\ [][NextAlias]_vars

---------------------------------------------------------------------------
(* A run whose admitted paths a.jpg, b.jpg and y.jpg name three different  *)
(* files, taken from the moment main has handed the tasks to p-limit,      *)
(* snake format.                                                           *)

DistinctArgv ==
    << Path(".", <<"a">>, "jpg", TRUE), Path(".", <<"b">>, "jpg", TRUE),
       Path(".", <<"y">>, "jpg", TRUE) >>

InitDistinct == InitRunning(DistinctArgv)

SpecDistinct == InitDistinct /\ [][NextAlias]_vars

---------------------------------------------------------------------------
(* The tasks of a run under fair scheduling: a pending read, request, stat *)
(* or rename eventually settles (the request within its 10 s timeout) and  *)
(* a settled call's continuation eventually runs.  The run is given every  *)
(* argument of ArgvPool and is taken from the moment main has handed the   *)
(* tasks to p-limit, snake format.                                         *)

InitFair == InitRunning(ArgvPool)

FairSpec == InitFair /\ [][NextAlias]_vars /\ WF_vars(NextAlias)

---------------------------------------------------------------------------
(* convertCase applied on its own to a name and a format.                  *)

\* the longest of the short names tried
MaxShortName == 3

\* the characters the short names are made of
NameChars == {"a", "B", " ", "-"}

RECURSIVE NamesUpTo(_)
NamesUpTo(n) ==
    IF n = 0 THEN {<<>>}
    ELSE LET shorter == NamesUpTo(n - 1)
         IN  shorter \cup {Append(s, c) : s \in {u \in shorter : Len(u) = n - 1},
                                           c \in NameChars}

\* n letters, a space and one more letter: cased with a space as the
\* delimiter, the text has n + 2 characters
LongName(n) == [k \in 1..n |-> "a"] \o <<" ", "b">>

\* names around the cap of 200 characters
LongNames == {LongName(n) : n \in (MaxNameLength - 3)..(MaxNameLength + 1)}

Names == NamesUpTo(MaxShortName) \cup LongNames

InitConvert ==
    /\ nameArg \in Names
    /\ filenameFormat \in Formats
    /\ nameResult = <<>>
    /\ mainPc = "convert"
    /\ apiKey = TRUE
    /\ argv = <<>>
    /\ fs = InitFs
    /\ validImagePaths = <<>>
    /\ concurrencyLimit = 0
    /\ activeCount = 0
    /\ pc = <<>>
    /\ aiResponse = <<>>
    /\ newFilePath = <<>>
    /\ result = <<>>
    /\ mutexHolder = 0
    /\ mutexQueue = <<>>
    /\ results = [success |-> 0, skipped |-> 0, error |-> 0]
    /\ done = 0
    /\ log = <<>>
    /\ calls = <<>>
    /\ fault = <<>>
    /\ external = 0

\* const sanitizedName = convertCase(aiName, format) (line 227)
Convert ==
    /\ mainPc = "convert"
    /\ nameResult' = convertCase(nameArg, filenameFormat)
    /\ mainPc' = "converted"
    /\ UNCHANGED <<apiKey, argv, fs, validImagePaths, filenameFormat,
                   concurrencyLimit, taskVars, external, nameArg>>

SpecConvert == InitConvert /\ [][Convert]_vars

---------------------------------------------------------------------------
(* Properties.                                                             *)

Statuses == {"success", "skipped", "error"}

\* how many progress notifications name task i
CountOf(i) == Cardinality({k \in 1..Len(log) : log[k].task = i})

\* how many progress notifications carry status s
CountWith(s) == Cardinality({k \in 1..Len(log) : log[k].status = s})

\* C1: every admitted path runs the pipeline once and is counted in exactly
\* one of the three counters: never more than once, each counter equals the
\* number of tasks completed with that status, and when Promise.all has
\* resolved every admitted path has been counted, so the counters add up to
\* the number of admitted paths.
C1_EachPathCountedOnce ==
    /\ \A i \in Tasks :
          /\ CountOf(i) <= 1
          /\ CountOf(i) = 1 <=> pc[i] = "done"
          /\ calls[i].read <= 1
    /\ \A s \in Statuses : results[s] = CountWith(s)
    /\ results.success + results.skipped + results.error = Len(log)
    /\ done = Len(log)
    /\ mainPc = "complete" =>
          /\ \A i \in 1..Len(validImagePaths) : CountOf(i) = 1 /\ calls[i].read = 1
          /\ results.success + results.skipped + results.error = Len(validImagePaths)

\* a completed run of three admitted paths with one outcome of each kind
C1_Witness ==
    /\ mainPc = "complete"
    /\ Len(validImagePaths) = 3
    /\ results.success = 1 /\ results.skipped = 1 /\ results.error = 1

\* C2: for every concurrency limit, the pipelines that have started and not
\* yet produced their outcome (encoding, describing, waiting for the rename
\* lock, checking or renaming) never number more than the limit.
C2_AtMostLimitInFlight == Cardinality(InFlight) <= concurrencyLimit

\* the limit is reached with a task still queued and one waiting for the lock
C2_Witness ==
    /\ concurrencyLimit = 2
    /\ Cardinality(InFlight) = 2
    /\ Queued # {}
    /\ \E i \in Tasks : pc[i] = "waiting"

\* the tasks between the start of the existence check and the end of rename
InCriticalSection == {i \in Tasks : pc[i] \in {"checking", "renaming"}}

\* C3: at most one pipeline is inside the check-then-rename sequence, and it
\* is the holder of the mutex; so no other pipeline's check or rename falls
\* between one pipeline's check and its rename.
C3_OneInCriticalSection ==
    /\ Cardinality(InCriticalSection) <= 1
    /\ \A i \in InCriticalSection : mutexHolder = i
    /\ \A k \in 1..Len(mutexQueue) : pc[mutexQueue[k]] = "waiting"

\* one pipeline is renaming while another waits for the lock
C3_Witness ==
    \E i, j \in Tasks : pc[i] = "renaming" /\ pc[j] = "waiting"

\* task i has returned from processImage
Returned(i) == pc[i] \in {"returned", "done"}

\* i and j are pipelines of two different files in one directory with the
\* same extension that computed the same destination
SameDestination(i, j) ==
    /\ i # j
    /\ Loc(validImagePaths[i]) # Loc(validImagePaths[j])
    /\ validImagePaths[i].dir = validImagePaths[j].dir
    /\ validImagePaths[i].ext = validImagePaths[j].ext
    /\ newFilePath[i] # NoPath
    /\ newFilePath[i] = newFilePath[j]

\* i and j were started together by p-limit, so they ran concurrently
StartedTogether(i, j) == i <= concurrencyLimit /\ j <= concurrencyLimit

\* the file identities on disk
FilesOnDisk(f) == {f[l] : l \in DOMAIN f}

\* C4 as stated: two concurrently processed files of one directory that
\* obtain the same name and extension end one in Success and the other in
\* Skipped, under every interleaving.
C4_OneSuccessOneSkipped ==
    \A i, j \in Tasks :
        SameDestination(i, j) /\ StartedTogether(i, j) /\ Returned(i) /\ Returned(j)
        => \/ result[i] = "success" /\ result[j] = "skipped"
           \/ result[i] = "skipped" /\ result[j] = "success"

\* C4 amended: when the common destination did not exist as a regular file
\* at the start of the run, at most one of the two ends in Success; exactly
\* one ends in Success and the other in Skipped when moreover neither
\* rename call failed and no third pipeline was renamed to that destination.
\* In every case no file is overwritten (every file of the start is still on
\* disk) and each pipeline ends in Success, Skipped or Error.
C4_AtMostOneSuccess ==
    /\ \A i, j \in Tasks :
          SameDestination(i, j) /\ Returned(i) /\ Returned(j)
          /\ Loc(newFilePath[i]) \notin DOMAIN InitFs
          => /\ ~(result[i] = "success" /\ result[j] = "success")
             /\ ( /\ fault[i] # "rename" /\ fault[j] # "rename"
                  /\ \A k \in Tasks \ {i, j} :
                        ~(result[k] = "success" /\ newFilePath[k] = newFilePath[i])
                  => \/ result[i] = "success" /\ result[j] = "skipped"
                     \/ result[i] = "skipped" /\ result[j] = "success" )
    /\ \A i \in Tasks : Returned(i) => result[i] \in Statuses
    /\ FilesOnDisk(fs) = FilesOnDisk(InitFs)

\* two files started together obtained the same new name; one was renamed
\* and the other skipped
C4_Witness ==
    \E i, j \in Tasks :
        /\ SameDestination(i, j) /\ StartedTogether(i, j)
        /\ Loc(newFilePath[i]) \notin DOMAIN InitFs
        /\ pc[i] = "done" /\ pc[j] = "done"
        /\ result[i] = "success" /\ result[j] = "skipped"

\* a rename call is issued only for a destination that is not a regular
\* file, and stays so until the call settles
RenameOntoFreeDestination ==
    \A i \in Tasks : pc[i] = "renaming" => ~doesFileExist(fs, newFilePath[i])

\* C5 as stated: rename is called only when the destination does not exist
\* as a regular file; so no two pipelines of a run succeed with the same
\* destination path, and no file is overwritten.
C5_NoTwoSucceedWithSameDestination ==
    /\ RenameOntoFreeDestination
    /\ \A i, j \in Tasks :
          i # j /\ result[i] = "success" /\ result[j] = "success"
          => newFilePath[i] # newFilePath[j]
    /\ FilesOnDisk(fs) = FilesOnDisk(InitFs)

\* two admitted path texts name the file at location l
NamedTwice(l) ==
    \E m, n \in 1..Len(validImagePaths) :
        m # n /\ Loc(validImagePaths[m]) = l /\ Loc(validImagePaths[n]) = l

\* C5 amended: rename is called only when the destination does not exist as
\* a regular file, and no file is ever overwritten; two pipelines succeed
\* with the same destination path only when that path is the location of a
\* file that two admitted path texts name (the file placed there first was
\* renamed away in between), so never when the admitted paths name
\* different files.
C5_NoOverwrite ==
    /\ RenameOntoFreeDestination
    /\ \A i, j \in Tasks :
          i # j /\ result[i] = "success" /\ result[j] = "success"
          /\ newFilePath[i] = newFilePath[j]
          => NamedTwice(Loc(newFilePath[i]))
    /\ FilesOnDisk(fs) = FilesOnDisk(InitFs)

\* a pipeline has been renamed to a destination another pipeline was
\* skipped for, and a third is calling rename
C5_Witness ==
    \E i, j, k \in Tasks :
        /\ result[i] = "success" /\ result[j] = "skipped"
        /\ newFilePath[i] = newFilePath[j] /\ calls[j].stat = 1
        /\ pc[k] = "renaming"

\* C6: with an outside actor that may create a regular file at any moment, a
\* pipeline never renames onto an existing regular file: every file the
\* actor created, like every file of the start, is still on disk.
C6_ExternalFileNotOverwritten ==
    /\ external > 0 => \E l \in DOMAIN fs : fs[l] \in ExternalFiles
    /\ FilesOnDisk(InitFs) \subseteq FilesOnDisk(fs)

\* C7: whatever fails inside a pipeline (the file read, the description
\* request, the rename), that pipeline returns Error; the fault never
\* reaches the scheduler: the faulted task holds neither the mutex nor a
\* place in its queue, main never exits with code 1 once the key was found,
\* and when Promise.all has resolved every task, faulted or not, has produced
\* and counted its own outcome.
C7_FaultsContained ==
    /\ \A i \in Tasks :
          /\ pc[i] \in {"queued", "encoding", "describing", "waiting",
                        "checking", "renaming", "returned", "done"}
          /\ fault[i] # "none" =>
                /\ Returned(i)
                /\ result[i] = "error"
                /\ mutexHolder # i
                /\ \A k \in 1..Len(mutexQueue) : mutexQueue[k] # i
          /\ result[i] = "error" => fault[i] # "none"
    /\ mainPc = "exit1" => ~apiKey
    /\ mainPc = "complete" =>
          \A i \in Tasks : pc[i] = "done" /\ result[i] \in Statuses

\* the first task to finish failed to read its file, another failed in
\* rename, and the third was still renamed; the run completed
C7_Witness ==
    /\ mainPc = "complete"
    /\ Len(log) = 3
    /\ fault[log[1].task] = "read"
    /\ \E i, j \in Tasks : fault[i] = "rename" /\ result[j] = "success"

\* the description request of task i timed out or had a non-2xx status
DescribeFailed(i) == aiResponse[i].kind \in {"timeout", "http_error"}

\* the file of task i is where it was when the run began
SourceInPlace(i) ==
    /\ Loc(validImagePaths[i]) \in DOMAIN fs
    /\ fs[Loc(validImagePaths[i])] = InitFs[Loc(validImagePaths[i])]

\* C8 as stated: after a timeout or a non-success status the outcome is
\* Error, the pipeline never enters the critical section, and the source
\* file is still at its original path with no rename call made for it.
C8_SourceStillAtItsPath ==
    \A i \in Tasks :
        DescribeFailed(i) =>
            /\ Returned(i) /\ result[i] = "error"
            /\ calls[i].acquire = 0 /\ calls[i].stat = 0 /\ calls[i].rename = 0
            /\ SourceInPlace(i)

\* C8 amended: after a timeout or a non-success status the outcome is Error
\* and that pipeline never enters the critical section and makes no rename
\* call; the source file is still at its original path unless another
\* admitted path text names the same file (whose pipeline may rename it).
C8_DescribeFailureLeavesFile ==
    \A i \in Tasks :
        DescribeFailed(i) =>
            /\ Returned(i) /\ result[i] = "error"
            /\ calls[i].acquire = 0 /\ calls[i].stat = 0 /\ calls[i].rename = 0
            /\ ~NamedTwice(Loc(validImagePaths[i])) => SourceInPlace(i)

\* one request timed out, one had a non-2xx status, and a third file of the
\* same run was renamed
C8_Witness ==
    \E i, j, k \in Tasks :
        /\ aiResponse[i].kind = "timeout" /\ pc[i] = "done"
        /\ aiResponse[j].kind = "http_error" /\ pc[j] = "done"
        /\ ~NamedTwice(Loc(validImagePaths[i]))
        /\ result[k] = "success"

\* C9: a description that is empty after trimming ends the pipeline in
\* Skipped, counted as skipped and not as error.
C9_EmptyDescriptionSkipped ==
    \A i \in Tasks :
        aiResponse[i].kind = "ok" /\ Trim(aiResponse[i].content) = <<>> /\ Returned(i)
        => result[i] = "skipped"

\* C10: when the computed destination is textually the source path, the
\* outcome is Skipped and the pipeline neither acquires the rename lock nor
\* calls stat or rename.
C10_NoOpRenameSkipped ==
    \A i \in Tasks :
        newFilePath[i] = validImagePaths[i] =>
            /\ Returned(i) /\ result[i] = "skipped"
            /\ calls[i].acquire = 0 /\ calls[i].stat = 0 /\ calls[i].rename = 0
            /\ mutexHolder # i

\* a file was described by its own name while another task held the lock
C10_Witness ==
    \E i, j \in Tasks :
        /\ newFilePath[i] = validImagePaths[i] /\ pc[i] = "done"
        /\ pc[j] \in {"checking", "renaming"}

\* path p is missing, not a regular file, not readable, or has an
\* extension outside png, jpg, jpeg, webp, when the run starts
Inadmissible(p) ==
    \/ Loc(p) \notin DOMAIN InitFs
    \/ InitFs[Loc(p)] \in Directories
    \/ InitFs[Loc(p)] \in Unreadable
    \/ p.ext \notin {"png", "jpg", "jpeg", "webp", "PNG", "JPG", "JPEG", "WEBP"}

\* C11: only admitted paths are scheduled.  Once the filter has run, an
\* argument that is missing, not a readable regular file or of another
\* extension is not among the admitted paths; tasks exist only for admitted
\* paths, every notification names such a task, and the counters never
\* exceed the number of admitted paths.
C11_OnlyAdmittedScheduled ==
    /\ mainPc # "start" /\ apiKey =>
          \A k \in 1..Len(argv) :
              Inadmissible(argv[k]) =>
                  \A i \in 1..Len(validImagePaths) : validImagePaths[i] # argv[k]
    /\ \A i \in 1..Len(validImagePaths) :
          /\ ~Inadmissible(validImagePaths[i])
          /\ \E k \in 1..Len(argv) : argv[k] = validImagePaths[i]
    /\ Tasks \subseteq 1..Len(validImagePaths)
    /\ \A k \in 1..Len(log) : log[k].task \in 1..Len(validImagePaths)
    /\ results.success + results.skipped + results.error <= Len(validImagePaths)
    /\ done <= Len(validImagePaths)

\* a run given a missing file, a .gif and an unreadable file among its
\* arguments completed, having counted the two admitted paths only
C11_Witness ==
    /\ mainPc = "complete"
    /\ Len(argv) = 5
    /\ Len(validImagePaths) = 2
    /\ done = 2

\* no task was created, no call was issued, nothing was reported or counted
\* and the files are as they were
NothingStarted ==
    /\ Tasks = {}
    /\ activeCount = 0
    /\ log = <<>>
    /\ done = 0
    /\ results = [success |-> 0, skipped |-> 0, error |-> 0]
    /\ fs = InitFs

\* C12: a run-level precondition failure ends the run before any pipeline
\* starts.  Without the API key the run can only exit with code 1; with the
\* key but no argument, or with no admitted argument, it can only exit with
\* code 0; and a run that exited started no task, issued no description
\* request and renamed nothing.
C12_PreconditionFailureEndsRun ==
    /\ ~apiKey => mainPc \in {"start", "exit1"}
    /\ mainPc = "exit1" => ~apiKey
    /\ apiKey /\ Len(argv) = 0 => mainPc \in {"start", "exit0"}
    /\ apiKey /\ (\A k \in 1..Len(argv) : Inadmissible(argv[k])) =>
          mainPc \in {"start", "exit0"}
    /\ mainPc \in {"exit0", "exit1"} => NothingStarted

\* the run was given arguments, none of them admitted, and exited with code 0
C12_Witness ==
    /\ mainPc = "exit0"
    /\ apiKey
    /\ Len(argv) > 0
    /\ Len(validImagePaths) = 0

\* C13: one progress notification per admitted path, at its completion.
\* The k-th notification shows the completed count k and the status of the
\* path it names; a path has a notification exactly when its task has
\* completed, never more than one; a complete run has one per admitted path.
C13_OneNotificationPerPath ==
    /\ \A k \in 1..Len(log) :
          /\ log[k].done = k
          /\ log[k].task \in Tasks
          /\ pc[log[k].task] = "done"
          /\ log[k].status = result[log[k].task]
    /\ \A i \in Tasks : CountOf(i) = IF pc[i] = "done" THEN 1 ELSE 0
    /\ done = Len(log)
    /\ mainPc = "complete" => Len(log) = Len(validImagePaths)

\* three paths completed out of input order with three different statuses
C13_Witness ==
    /\ mainPc = "complete"
    /\ Len(log) = 3
    /\ log[1].task = 2
    /\ {log[k].status : k \in 1..3} = Statuses

\* the same file identities are on disk as at the start, at as many paths
SameFiles ==
    /\ FilesOnDisk(fs) = FilesOnDisk(InitFs)
    /\ Cardinality(DOMAIN fs) = Cardinality(DOMAIN InitFs)

\* every successful task's destination is in its source's directory and has
\* its source's extension
RenamedInPlace ==
    \A i \in Tasks :
        result[i] = "success" =>
            /\ newFilePath[i].dir = validImagePaths[i].dir
            /\ newFilePath[i].ext = validImagePaths[i].ext

\* a step that changes the filesystem is the successful rename of exactly
\* one task: that task's source entry moves to its destination, which was
\* vacant, and every other entry stays
OnlySuccessChangesFiles ==
    fs' # fs =>
        \E i \in Tasks :
            /\ result[i] = "none" /\ result'[i] = "success"
            /\ \A j \in Tasks \ {i} : result'[j] = result[j]
            /\ LET src == Loc(validImagePaths[i])
                   dst == Loc(newFilePath[i])
               IN  /\ src \in DOMAIN fs /\ dst \notin DOMAIN fs
                   /\ DOMAIN fs' = (DOMAIN fs \ {src}) \cup {dst}
                   /\ fs'[dst] = fs[src]
                   /\ \A l \in DOMAIN fs \ {src} : fs'[l] = fs[l]

\* C14: a run creates no file and deletes no file.  The files on disk are
\* always the files of the start, at as many paths; a successful rename has
\* its destination in the source's directory with the source's extension;
\* and the filesystem changes only in the step in which one task's rename
\* succeeds, so a task that ends skipped or error changed nothing.
C14_RenamedInPlaceOnly ==
    /\ [](SameFiles /\ RenamedInPlace)
    /\ [][OnlySuccessChangesFiles]_vars

\* a complete run with a success, a skip and an error
C14_Witness ==
    /\ mainPc = "complete"
    /\ \E i \in Tasks : result[i] = "success" /\ fs # InitFs
    /\ \E i \in Tasks : result[i] = "skipped"
    /\ \E i \in Tasks : result[i] = "error"

\* C15: for every name and every format, the text convertCase returns has
\* no whitespace at its start or at its end, also when the cased text is
\* longer than 200 characters and is cut.
C15_NoOuterWhitespace ==
    mainPc = "converted" /\ nameResult # <<>> =>
        /\ ~IsSpace(nameResult[1])
        /\ ~IsSpace(nameResult[Len(nameResult)])

\* task i has left the critical section in this step
LeavesCriticalSection(i) ==
    /\ pc[i] \in {"checking", "renaming"}
    /\ pc'[i] \notin {"checking", "renaming"}

\* the lock is never with a task that has returned, and a free lock has no
\* waiter
NotHeldAfterReturn ==
    /\ \A i \in Tasks : pc[i] \in {"returned", "done"} => mutexHolder # i
    /\ mutexHolder = 0 => mutexQueue = <<>>
    /\ \A i \in Tasks : pc[i] = "waiting" <=> \E k \in 1..Len(mutexQueue) : mutexQueue[k] = i

\* a task that leaves the critical section, by a skip, a rename or a failed
\* rename, has returned; the lock is then free when nobody waits, else it
\* is with the oldest waiter, whose callback has started
ReleasedOnLeave ==
    \A i \in Tasks :
        LeavesCriticalSection(i) =>
            /\ pc'[i] = "returned"
            /\ result'[i] \in Statuses
            /\ IF mutexQueue = <<>>
               THEN mutexHolder' = 0
               ELSE /\ mutexHolder' = Head(mutexQueue)
                    /\ pc'[Head(mutexQueue)] = "checking"

\* a task stops waiting only by becoming the holder of the lock
WaitEndsWithLock ==
    \A i \in Tasks :
        pc[i] = "waiting" /\ pc'[i] # "waiting" =>
            mutexHolder' = i /\ pc'[i] = "checking"

\* C16: the rename lock is released on every exit from the critical
\* section, also when the destination exists and when fs.rename fails: the
\* task that leaves no longer holds it, it is free or handed to the oldest
\* waiter, and under fair scheduling every task waiting for the lock
\* eventually holds it (waiting ends only by taking the lock, and time and
\* again nobody is waiting).
C16_LockReleasedOnEveryExit ==
    /\ []NotHeldAfterReturn
    /\ [][ReleasedOnLeave /\ WaitEndsWithLock]_vars
    /\ []<>(\A i \in Tasks : pc[i] # "waiting")

\* a task's rename failed and it has returned; the lock went to another
\* task, and a third one waits for it
C16_Witness ==
    \E i, j, k \in Tasks :
        /\ fault[i] = "rename" /\ pc[i] \in {"returned", "done"}
        /\ mutexHolder = j /\ pc[j] = "checking"
        /\ pc[k] = "waiting"

\* the tasks whose read or description request is pending
ReadingOrDescribing == {i \in Tasks : pc[i] \in {"encoding", "describing"}}

NoStuckTask ==
    /\ mainPc = "running" /\ (\E i \in Tasks : pc[i] # "done") =>
          \E i \in Tasks :
              pc[i] \in {"encoding", "describing", "checking", "renaming", "returned"}
    /\ Queued # {} => activeCount = concurrencyLimit

\* in a complete run every admitted path has a task that is done with a
\* status
AllTerminal ==
    mainPc = "complete" =>
        \A i \in 1..Len(validImagePaths) :
            i \in Tasks /\ pc[i] = "done" /\ result[i] \in Statuses

\* C18: under fair scheduling, every call eventually settling, the run
\* completes with every admitted path at a terminal outcome; and no state
\* has unfinished tasks none of which can take a step (p-limit and the
\* rename lock do not deadlock).
C18_RunTerminates ==
    /\ []NoStuckTask
    /\ []AllTerminal
    /\ <>(mainPc = "complete")

\* a run of three paths under a limit of two completed although a request
\* timed out and a rename failed
C18_Witness ==
    /\ mainPc = "complete"
    /\ Len(validImagePaths) = 3
    /\ concurrencyLimit = 2
    /\ \E i \in Tasks : aiResponse[i].kind = "timeout"
    /\ \E i \in Tasks : fault[i] = "rename"

\* C19: no operation is retried.  For every admitted path at most one
\* fs.readFile, one description request and one fs.rename are issued,
\* whatever their results: after a failed read no request and no rename,
\* after a failed request no rename, and a finished task issues nothing
\* more.
C19_NoRetry ==
    \A i \in Tasks :
        /\ calls[i].read <= 1
        /\ calls[i].fetch <= 1
        /\ calls[i].rename <= 1
        /\ fault[i] = "read" => calls[i].fetch = 0 /\ calls[i].rename = 0
        /\ fault[i] = "describe" => calls[i].rename = 0
        /\ calls[i].fetch <= calls[i].read
        /\ calls[i].rename <= calls[i].fetch

\* a complete run in which a read, a request and a rename each failed, each
\* issued once
C19_Witness ==
    /\ mainPc = "complete"
    /\ \E i, j, k \in Tasks :
          /\ fault[i] = "read" /\ calls[i].read = 1
          /\ fault[j] = "describe" /\ calls[j].fetch = 1
          /\ fault[k] = "rename" /\ calls[k].rename = 1

\* no file is named by two admitted path texts
DistinctFiles == \A l \in DOMAIN InitFs : ~NamedTwice(l)

\* C20: when the admitted paths name distinct files and nothing outside the
\* run touches the filesystem, the file at a task's source path is its
\* original file until the task's own rename succeeds, and the file that
\* rename put at the destination is that same original file.
C20_RenamesTheFileItDescribed ==
    DistinctFiles =>
        \A i \in Tasks :
            /\ result[i] # "success" => SourceInPlace(i)
            /\ result[i] = "success" =>
                  /\ Loc(newFilePath[i]) \in DOMAIN fs
                  /\ fs[Loc(newFilePath[i])] = InitFs[Loc(validImagePaths[i])]

\* one task was renamed away from its path and another task's file was
\* then moved onto that path, while a third task's rename is pending
C20_Witness ==
    /\ DistinctFiles
    /\ \E i, j, k \in Tasks :
          /\ i # j
          /\ result[i] = "success" /\ result[j] = "success"
          /\ Loc(newFilePath[j]) = Loc(validImagePaths[i])
          /\ pc[k] = "renaming"

=============================================================================
